---- MODULE Spec2Model ----
(***************************************************************************)
(* Model of the Post Service of app/app.py: the three HTTP handlers        *)
(* upload_file, get_feed and delete_post over the user and post tables,    *)
(* the storage collaborator and the temporary staging file.                *)
(*                                                                         *)
(* Every action is one whole HTTP request.  `call` records the request     *)
(* that was handled last (its inputs, the step outcomes the environment    *)
(* chose, and what the handler left behind on the filesystem); `resp` is   *)
(* the HTTP response the caller received for it.                           *)
(***************************************************************************)
EXTENDS Integers, Sequences, FiniteSets, TLC

VARIABLES users, nextUserId, posts, nextPostId, clock, call, resp

vars == <<users, nextUserId, posts, nextPostId, clock, call, resp>>

(* ------------------------------ bounds --------------------------------- *)
MaxUsers == 2
MaxPosts == 2

(* ------------------------------ inputs --------------------------------- *)
\* The email each user registers with, by the order of registration.
Emails == <<"a@example.com", "b@example.com", "c@example.com", "d@example.com">>
Captions == {"hello"}
FileName == "pic.png"

\* Declared content types of an upload, as character sequences; the header
\* may be missing, and then UploadFile.content_type is None.
CtVideoMp4 == <<"v", "i", "d", "e", "o", "/", "m", "p", "4">>
CtImagePng == <<"i", "m", "a", "g", "e", "/", "p", "n", "g">>
CtVideo == <<"v", "i", "d", "e", "o">>
CtAppVideo == <<"x", "/", "v", "i", "d", "e", "o", "/">>
NoneType == [none |-> TRUE, str |-> <<>>]
Str(s) == [none |-> FALSE, str |-> s]
ContentTypes == {Str(CtVideoMp4), Str(CtImagePng), Str(CtVideo), Str(CtAppVideo), NoneType}

\* What the storage collaborator can answer: it raises, or it returns a
\* response with a status code, a url and the unique name it assigned.
StorageRaised == [kind |-> "raised", status |-> 0, url |-> "", name |-> ""]
StorageOutcomes ==
    { StorageRaised,
      [kind |-> "returned", status |-> 200, url |-> "https://ik/pic_a1.png", name |-> "pic_a1.png"],
      [kind |-> "returned", status |-> 400, url |-> "", name |-> ""] }
NoStorage == [kind |-> "not_reached", status |-> 0, url |-> "", name |-> ""]

\* The post_id path parameter of DELETE /posts/{post_id}: a string.  The
\* canonical and the upper-case spelling of a UUID parse to the same UUID;
\* anything else does not parse.
PostIdStrings == [form : {"canonical", "upper", "garbage"}, n : 1 .. MaxPosts]
NoPostId == [form |-> "none", n |-> 0]

(* --------------------------- pure helpers ------------------------------ *)
IdsOf(ps) == { p.id : p \in ps }

\* str.startswith
StartsWith(s, prefix) ==
    /\ Len(s) >= Len(prefix)
    /\ SubSeq(s, 1, Len(prefix)) = prefix

VideoPrefix == <<"v", "i", "d", "e", "o", "/">>


\* str(uuid.UUID): the canonical spelling.
UuidStr(id) == [form |-> "canonical", n |-> id]

\* uuid.UUID(post_id): the UUID a string spells, or ValueError.
UuidParses(s) == s.form \in {"canonical", "upper"}

UuidValue(s) == s.n

\* datetime.isoformat()
IsoFormat(t) == [iso |-> t]

\* dict.get(key, default)
DictGet(d, k, default) == IF k \in DOMAIN d THEN d[k] ELSE default

(* ------------------------ exceptions, responses ------------------------ *)
\* A message string.  str() of an HTTPException is its status code, a colon
\* and its detail ("404: Post not found"); `status` holds that prefix and is
\* 0 for a message without one.
Msg(text) == [status |-> 0, text |-> text]
NoDetail == Msg("")
NoExc == [type |-> "none", status |-> 0, detail |-> NoDetail]
Raise(type, text) == [type |-> type, status |-> 0, detail |-> Msg(text)]
HTTPException(status, detail) == [type |-> "HTTPException", status |-> status, detail |-> detail]

\* str(e)
ExcStr(e) == IF e.type = "HTTPException" THEN [status |-> e.status, text |-> e.detail.text] ELSE e.detail

NoResp == [status |-> 0, kind |-> "none", detail |-> NoDetail, post |-> {}, posts |-> <<>>]
\* The framework's answer to a raised HTTPException.
ErrorResponse(e) == [NoResp EXCEPT !.status = e.status, !.kind = "error", !.detail = e.detail]
\* The framework's answer to any other exception that leaves the handler.
ServerError == [NoResp EXCEPT !.status = 500, !.kind = "error", !.detail = Msg("Internal Server Error")]
\* The framework's answer to a returned value.
JsonPost(p) == [NoResp EXCEPT !.status = 200, !.kind = "post", !.post = {p}]
JsonNull == [NoResp EXCEPT !.status = 200, !.kind = "null"]
JsonFeed(s) == [NoResp EXCEPT !.status = 200, !.kind = "feed", !.posts = s]
JsonAck == [NoResp EXCEPT !.status = 200, !.kind = "ack", !.detail = Msg("Post Deleted Successfully")]

NoCall ==
    [op |-> "none", caller |-> 0, caption |-> "", content_type |-> NoneType,
     post_id |-> NoPostId, tmp |-> "not_reached", storage |-> NoStorage,
     commit |-> "not_reached", refresh |-> "not_reached", db |-> "not_reached",
     tmp_file_exists |-> FALSE, read_handle |-> "not_opened",
     upload_closed |-> FALSE, cleanup_raised |-> FALSE]

(* ------------------------------ upload --------------------------------- *)
\* FileTypeOf with the slash of the prefix forgotten.
FileTypeOf_NoSlash(content_type) == IF StartsWith(content_type, <<"v", "i", "d", "e", "o">>) THEN "video" ELSE "image"

\* Line 65: the file type of a post, from the declared content type.
FileTypeOf(content_type) == IF StartsWith(content_type, VideoPrefix) THEN "video" ELSE "image"

\* NewPost with the uploaded file's own name instead of the name the storage
\* service assigned.
NewPost_OriginalName(user, caption, upload_result, content_type, id, created_at) ==
    [id |-> id,
     user_id |-> user,
     caption |-> caption,
     url |-> upload_result.url,
     file_type |-> FileTypeOf(content_type),
     file_name |-> FileName,
     created_at |-> created_at]

\* Lines 61-67, with the id and created_at the persistence layer fills in
\* at commit.
NewPost(user, caption, upload_result, content_type, id, created_at) ==
    [id |-> id,
     user_id |-> user,
     caption |-> caption,
     url |-> upload_result.url,
     file_type |-> FileTypeOf(content_type),
     file_name |-> upload_result.name,
     created_at |-> created_at]

\* Post.id default: an identifier no post had before.
GeneratedId == nextPostId

\* Line 60: whether the handler takes the branch that builds a post.
StorageAccepted(upload_result) == upload_result.status = 200

\* Lines 44-71, the body of the try statement: the exception it raises (or
\* NoExc), the value it returns, the post it commits, and what it has done
\* to the filesystem by then.
UploadTry(user, caption, content_type, tmp, storage, commit, refresh, id, now) ==
    LET out == [exc |-> NoExc, ret |-> JsonNull, added |-> {},
                path_bound |-> FALSE, file_created |-> FALSE, read_opened |-> FALSE]
        staged == [out EXCEPT !.path_bound = TRUE, !.file_created = TRUE]
        sent == [staged EXCEPT !.read_opened = TRUE]
        post == NewPost(user, caption, storage, content_type.str, id, now)
    IN  IF tmp = "create_error"
          THEN [out EXCEPT !.exc = Raise("OSError", "cannot create temporary file")]
        ELSE IF tmp = "copy_error"
          THEN [staged EXCEPT !.exc = Raise("OSError", "cannot copy upload")]
        ELSE IF storage.kind = "raised"
          THEN [sent EXCEPT !.exc = Raise("StorageError", "storage upload failed")]
        ELSE IF ~StorageAccepted(storage)
          THEN sent
        ELSE IF content_type.none
          THEN [sent EXCEPT !.exc = Raise("AttributeError", "'NoneType' object has no attribute 'startswith'")]
        ELSE IF commit = "error"
          THEN [sent EXCEPT !.exc = Raise("SQLAlchemyError", "commit failed")]
        ELSE IF refresh = "error"
          THEN [sent EXCEPT !.exc = Raise("SQLAlchemyError", "refresh failed"), !.added = {post}]
        ELSE [sent EXCEPT !.ret = JsonPost(post), !.added = {post}]

\* Lines 73-74: the except clause turns any exception of the body into an
\* HTTPException with status 500 and the exception's message.
UploadExcept(exc) == IF exc.type = "none" THEN NoExc ELSE HTTPException(500, ExcStr(exc))

\* Lines 75-78, the finally clause.  temp_file_path is a local that is bound
\* only by line 47: reading it before that raises UnboundLocalError, which
\* replaces the pending exception and skips file.file.close().
UploadFinally(t, pending) ==
    IF t.path_bound
    THEN [exc |-> pending, tmp_file_exists |-> FALSE, upload_closed |-> TRUE, cleanup_raised |-> FALSE]
    ELSE [exc |-> Raise("UnboundLocalError", "local variable 'temp_file_path' referenced before assignment"),
          tmp_file_exists |-> t.file_created, upload_closed |-> FALSE, cleanup_raised |-> TRUE]

\* What the HTTP caller receives: the returned value, the HTTPException, or
\* the framework's plain 500 for any other exception.
Respond(exc, ret) ==
    IF exc.type = "none" THEN ret
    ELSE IF exc.type = "HTTPException" THEN ErrorResponse(exc)
    ELSE ServerError

\* POST /upload (lines 37-78), one whole request.  tmp, storage, commit and
\* refresh are the outcomes of the steps the handler does not control and
\* now is the time the persistence layer stamps.  The handle of line 52 is
\* never closed by the handler: it is left to the garbage collector.
upload_file(user, caption, content_type, tmp, storage, commit, refresh, now) ==
    LET t == UploadTry(user, caption, content_type, tmp, storage, commit, refresh, GeneratedId, now)
        f == UploadFinally(t, UploadExcept(t.exc))
    IN  /\ posts' = posts \cup t.added
        /\ nextPostId' = IF t.added = {} THEN nextPostId ELSE nextPostId + 1
        /\ clock' = IF t.added = {} THEN clock ELSE now
        /\ call' = [NoCall EXCEPT !.op = "upload", !.caller = user, !.caption = caption,
                                  !.content_type = content_type, !.tmp = tmp,
                                  !.storage = storage, !.commit = commit, !.refresh = refresh,
                                  !.tmp_file_exists = f.tmp_file_exists,
                                  !.read_handle = IF t.read_opened THEN "left_to_gc" ELSE "not_opened",
                                  !.upload_closed = f.upload_closed,
                                  !.cleanup_raised = f.cleanup_raised]
        /\ resp' = Respond(f.exc, t.ret)
        /\ UNCHANGED <<users, nextUserId>>

(* ------------------------------- feed ---------------------------------- *)
\* The sequences that list every element of ps once.
Orderings(ps) ==
    { s \in [1 .. Cardinality(ps) -> ps] : \A i, j \in 1 .. Cardinality(ps) : i # j => s[i] # s[j] }

\* OrderByCreatedAtDesc without the desc().
OrderByCreatedAtAsc(ps) ==
    { s \in Orderings(ps) : \A i, j \in 1 .. Len(s) : i < j => s[i].created_at <= s[j].created_at }

\* Line 85, ORDER BY created_at DESC: the rows in an order the database may
\* return them in (rows with equal created_at come in any order).
OrderByCreatedAtDesc(ps) ==
    { s \in Orderings(ps) : \A i, j \in 1 .. Len(s) : i < j => s[i].created_at >= s[j].created_at }

\* Line 105.
IsOwner(post, user) == post.user_id = user

\* AuthorEmail looking the post's own id up instead of its author's.
AuthorEmail_ByPostId(user_dict, post) == DictGet(user_dict, post.id, "Unknown")

\* Lines 89-91 and 106: the author's email from the map of all users.
AuthorEmail(user_dict, post) == DictGet(user_dict, post.user_id, "Unknown")

\* Lines 97-107: one entry of the feed.
Projection(post, user, user_dict) ==
    [id |-> UuidStr(post.id),
     user_id |-> UuidStr(post.user_id),
     caption |-> post.caption,
     url |-> post.url,
     file_type |-> post.file_type,
     file_name |-> post.file_name,
     created_at |-> IsoFormat(post.created_at),
     is_owner |-> IsOwner(post, user),
     email |-> AuthorEmail(user_dict, post)]

\* GET /feed (lines 80-109), one whole request; rows is the result of the
\* query of line 85.
get_feed(user, rows) ==
    /\ call' = [NoCall EXCEPT !.op = "feed", !.caller = user]
    /\ resp' = JsonFeed([i \in 1 .. Len(rows) |-> Projection(rows[i], user, users)])
    /\ UNCHANGED <<users, nextUserId, posts, nextPostId, clock>>

(* ------------------------------ delete --------------------------------- *)
\* Lines 117-118: the row with that id, as a set (empty when there is none).
SelectPost(ps, post_uuid) == { p \in ps : p.id = post_uuid }

\* Line 123: whether the caller may not delete the post.
NotOwner(post, user) == post.user_id # user

\* DeleteRow without the commit: the row stays.
DeleteRow_NoCommit(ps, post) == ps

\* Lines 126-127: the table after the row is deleted and the delete committed.
DeleteRow(ps, post) == ps \ {post}

\* Lines 116-128, the body of the try statement: the exception it raises
\* (or NoExc), the value it returns and the post table it leaves.
DeleteTry(user, post_id, db) ==
    LET same == [exc |-> NoExc, ret |-> JsonNull, posts |-> posts]
        found == SelectPost(posts, UuidValue(post_id))
        post == CHOOSE p \in found : TRUE
    IN  IF ~UuidParses(post_id)
          THEN [same EXCEPT !.exc = Raise("ValueError", "badly formed hexadecimal UUID string")]
        ELSE IF found = {}
          THEN [same EXCEPT !.exc = HTTPException(404, Msg("Post not found"))]
        ELSE IF NotOwner(post, user)
          THEN [same EXCEPT !.exc = HTTPException(403, Msg("You didn't have access to delete this post."))]
        ELSE IF db = "commit_error"
          THEN [same EXCEPT !.exc = Raise("SQLAlchemyError", "commit failed")]
        ELSE [same EXCEPT !.ret = JsonAck, !.posts = DeleteRow(posts, post)]

\* Lines 129-130: the except clause catches every Exception, the
\* HTTPExceptions of lines 121 and 124 included, and raises a 500 with the
\* caught exception's str() as detail.
DeleteExcept(exc) == IF exc.type = "none" THEN NoExc ELSE HTTPException(500, ExcStr(exc))

\* DELETE /posts/{post_id} (lines 111-130), one whole request.
delete_post(user, post_id, db) ==
    LET t == DeleteTry(user, post_id, db)
    IN  /\ posts' = t.posts
        /\ call' = [NoCall EXCEPT !.op = "delete", !.caller = user, !.post_id = post_id, !.db = db]
        /\ resp' = Respond(DeleteExcept(t.exc), t.ret)
        /\ UNCHANGED <<users, nextUserId, nextPostId, clock>>

(* -------------------------- delegated routes --------------------------- *)
\* POST /auth/register (line 31): a new user with a fresh id and an email
\* no current user has.
register(email) ==
    /\ users' = [u \in DOMAIN users \cup {nextUserId} |-> IF u = nextUserId THEN email ELSE users[u]]
    /\ nextUserId' = nextUserId + 1
    /\ call' = [NoCall EXCEPT !.op = "register"]
    /\ resp' = NoResp
    /\ UNCHANGED <<posts, nextPostId, clock>>

\* DELETE /users/{id} (line 34): the user row is deleted; the route knows
\* nothing of posts.
delete_user(id) ==
    /\ users' = [u \in DOMAIN users \ {id} |-> users[u]]
    /\ call' = [NoCall EXCEPT !.op = "delete_user"]
    /\ resp' = NoResp
    /\ UNCHANGED <<nextUserId, posts, nextPostId, clock>>

(* --------------------------- specification ----------------------------- *)
\* The state after startup on an empty database (lifespan, lines 16-19).
Init ==
    /\ users = << >>
    /\ nextUserId = 1
    /\ posts = {}
    /\ nextPostId = 1
    /\ clock = 0
    /\ call = NoCall
    /\ resp = NoResp

\* The requests are made by authenticated callers (current_active_user):
\* users that currently exist.
Callers == DOMAIN users

\* Requests are handled one at a time: a request is taken up when the
\* response to the one before has been sent.
Idle == call.op = "none"

\* The response of the request handled last goes out to its caller.
Deliver ==
    /\ ~Idle
    /\ call' = NoCall
    /\ resp' = NoResp
    /\ UNCHANGED <<users, nextUserId, posts, nextPostId, clock>>

Reached(b, S) == IF b THEN S ELSE {"not_reached"}

UploadFile ==
    /\ Idle
    /\ nextPostId <= MaxPosts
    /\ \E user \in Callers, caption \in Captions, content_type \in ContentTypes :
       \E tmp \in {"create_error", "copy_error", "ok"} :
       \E storage \in IF tmp = "ok" THEN StorageOutcomes ELSE {NoStorage} :
       \E commit \in Reached(storage.status = 200 /\ ~content_type.none, {"ok", "error"}) :
       \E refresh \in Reached(commit = "ok", {"ok", "error"}) :
       \E now \in IF commit = "ok" THEN {clock, clock + 1} ELSE {clock} :
          upload_file(user, caption, content_type, tmp, storage, commit, refresh, now)

GetFeed ==
    /\ Idle
    /\ \E user \in Callers, rows \in OrderByCreatedAtDesc(posts) :
        get_feed(user, rows)

DeletePost ==
    /\ Idle
    /\ \E user \in Callers, post_id \in PostIdStrings :
       \E db \in Reached(\E p \in posts : UuidParses(post_id) /\ p.id = UuidValue(post_id) /\ p.user_id = user, {"ok", "commit_error"}) :
          delete_post(user, post_id, db)

Register ==
    /\ Idle
    /\ nextUserId <= MaxUsers
    /\ register(Emails[nextUserId])

DeleteUser ==
    /\ Idle
    /\ \E id \in DOMAIN users :
        delete_user(id)

Next == UploadFile \/ GetFeed \/ DeletePost \/ Register \/ DeleteUser \/ Deliver

Spec == Init /\ [][Next]_vars

TypeOK ==
    /\ DOMAIN users \subseteq 1 .. MaxUsers
    /\ \A u \in DOMAIN users : users[u] = Emails[u]
    /\ \A p \in posts : p.id \in 1 .. MaxPosts /\ p.file_type \in {"image", "video"}
    /\ \A p, q \in posts : p.id = q.id => p = q

(* ------------------------------ claims --------------------------------- *)
\* The post a well-formed post_id string names, as a set.
Named(ps, post_id) == { p \in ps : UuidParses(post_id) /\ p.id = UuidValue(post_id) }

\* The ids of the posts that were created and are in the store no more.
DeletedIds == (1 .. nextPostId - 1) \ IdsOf(posts)

\* Whether a string begins with the six characters v i d e o /.
BeginsVideoSlash(s) == Len(s) >= 6 /\ \A i \in 1 .. 6 : s[i] = VideoPrefix[i]

FeedEntries == { resp.posts[i] : i \in 1 .. Len(resp.posts) }

\* C1: a delete of a post by an authenticated caller who is not the user of
\* its user_id answers 403 and leaves the post in the store, and a post
\* leaves the store only by a delete issued by the user of its user_id.
C1_NonOwnerDeleteForbidden ==
    [][ /\ \A p \in posts :
              (call'.op = "delete" /\ p \in Named(posts, call'.post_id) /\ call'.caller # p.user_id)
                  => (resp'.status = 403 /\ p \in posts')
        /\ \A p \in posts \ posts' :
              call'.op = "delete" /\ p \in Named(posts, call'.post_id) /\ call'.caller = p.user_id ]_vars

\* C2: a delete of a well-formed post id that is not in the store answers
\* 404 and leaves the store unchanged.
C2_MissingDeleteNotFound ==
    [][ (call'.op = "delete" /\ UuidParses(call'.post_id) /\ Named(posts, call'.post_id) = {})
            => (resp'.status = 404 /\ posts' = posts) ]_vars

\* C3: when the owner deletes an existing post (and the commit goes through)
\* the call answers 200 with the message "Post Deleted Successfully" and
\* the post is gone; and a post that is gone stays gone: whatever request
\* comes next does not bring it back, no feed lists its id and no delete of
\* its id succeeds.
C3_DeleteIsPermanent ==
    [][ /\ \A p \in posts :
              (call'.op = "delete" /\ p \in Named(posts, call'.post_id) /\ call'.caller = p.user_id /\ call'.db = "ok")
                  => /\ resp'.status = 200
                     /\ resp'.kind = "ack"
                     /\ resp'.detail = Msg("Post Deleted Successfully")
                     /\ p.id \notin IdsOf(posts')
        /\ \A id \in DeletedIds :
              /\ id \notin IdsOf(posts')
              /\ resp'.kind = "feed" => \A i \in 1 .. Len(resp'.posts) : resp'.posts[i].id # UuidStr(id)
              /\ (call'.op = "delete" /\ UuidParses(call'.post_id) /\ UuidValue(call'.post_id) = id)
                    => (resp'.status # 200 /\ resp'.kind = "error") ]_vars

\* C3 witness: a delete of an id that was deleted before is refused while
\* another post, uploaded since, is in the store.
C3_Witness ==
    /\ call.op = "delete"
    /\ UuidParses(call.post_id)
    /\ UuidValue(call.post_id) \in DeletedIds
    /\ resp.kind = "error"
    /\ \E p \in posts : p.id > UuidValue(call.post_id)

\* C4: an upload that creates no post fails with status 500 and an error
\* body: no failed upload is answered as a success.
C4_FailedUploadIs500 ==
    [][ (call'.op = "upload" /\ posts' = posts) => (resp'.status = 500 /\ resp'.kind = "error") ]_vars

\* C5: after an upload has returned, on whatever path, the staging file is
\* gone, the handler holds no open handle and the cleanup has not raised.
C5_StagingFileReleased ==
    call.op = "upload" => (~call.tmp_file_exists /\ call.upload_closed /\ ~call.cleanup_raised)

\* C6: every post in the store has the id of a user in the user store as
\* its user_id.
C6_PostReferencesExistingUser ==
    \A p \in posts : p.user_id \in DOMAIN users

\* C7: a feed response lists every post of the store once, in descending
\* order of created_at, and an entry's is_owner is true exactly when the
\* post's user_id is the caller's id.
C7_FeedSortedAndOwned ==
    resp.kind = "feed" =>
        /\ Len(resp.posts) = Cardinality(posts)
        /\ { e.id : e \in FeedEntries } = { UuidStr(p.id) : p \in posts }
        /\ \A i, j \in 1 .. Len(resp.posts) :
              i < j => resp.posts[i].created_at.iso >= resp.posts[j].created_at.iso
        /\ \A e \in FeedEntries : \A p \in posts :
              UuidStr(p.id) = e.id =>
                  /\ e.created_at = IsoFormat(p.created_at)
                  /\ e.is_owner = (p.user_id = call.caller)

\* C7 witness: a feed of two posts with different times, one the caller's
\* own and one not.
C7_Witness ==
    /\ resp.kind = "feed"
    /\ Len(resp.posts) >= 2
    /\ resp.posts[1].created_at # resp.posts[2].created_at
    /\ \E e \in FeedEntries : e.is_owner
    /\ \E e \in FeedEntries : ~e.is_owner

\* C8: in a feed response an entry's email is the email of the user whose
\* id is the post's user_id when there is such a user, and "Unknown" when
\* there is none.
C8_FeedEmail ==
    resp.kind = "feed" =>
        \A e \in FeedEntries : \A p \in posts :
            UuidStr(p.id) = e.id =>
                e.email = IF p.user_id \in DOMAIN users THEN users[p.user_id] ELSE "Unknown"

\* C8 witness: a feed with a post whose author is gone and a post whose
\* author still exists.
C8_Witness ==
    /\ resp.kind = "feed"
    /\ \E e \in FeedEntries : e.email = "Unknown"
    /\ \E e \in FeedEntries : e.email \in { users[u] : u \in DOMAIN users }

\* C9: the post an upload persists, and the post it returns, has file_type
\* "video" when the declared content type begins with "video/" and "image"
\* when it does not.
C9_FileTypeFromContentType ==
    [][ call'.op = "upload" =>
            \A p \in (posts' \ posts) \cup resp'.post :
                /\ ~call'.content_type.none
                /\ p.file_type = IF BeginsVideoSlash(call'.content_type.str) THEN "video" ELSE "image" ]_vars

\* C9 witness: an upload declared "video" (no slash) has returned its post,
\* and the store holds a video post as well.
C9_Witness ==
    /\ call.op = "upload"
    /\ resp.kind = "post"
    /\ call.content_type = Str(CtVideo)
    /\ \E p \in posts : p.file_type = "video"

\* C10: an upload adds a post exactly when the storage call returned status
\* 200 and the commit succeeded; it then adds one post, with a new id, the
\* caller's id as user_id and the url and name of the storage response; and
\* no request changes a post that stays in the store.
C10_UploadCreatesOnce ==
    [][ /\ call'.op = "upload" =>
              /\ (posts' # posts) <=> (call'.storage.kind = "returned" /\ call'.storage.status = 200 /\ call'.commit = "ok")
              /\ posts \subseteq posts'
              /\ Cardinality(posts' \ posts) <= 1
              /\ \A p \in posts' \ posts :
                    /\ p.id \notin IdsOf(posts)
                    /\ p.user_id = call'.caller
                    /\ p.url = call'.storage.url
                    /\ p.file_name = call'.storage.name
        /\ call'.op = "feed" => posts' = posts
        /\ \A p \in posts : p.id \in IdsOf(posts') => p \in posts' ]_vars

\* C10 witness: an upload has returned its post and a post uploaded before
\* it is in the store.
C10_Witness ==
    /\ call.op = "upload"
    /\ resp.kind = "post"
    /\ \E p \in posts : p \notin resp.post

====
